---- MODULE Spec2Model ----
(***************************************************************************)
(* Model of latininscriptions.py: a Streamlit script that loads            *)
(* inscriptions_data.csv through a memoised load_data() and renders one of *)
(* four pages (Overview, Search, Statistics, About) over the loaded frame, *)
(* or a no-data notice.                                                    *)
(*                                                                         *)
(* Representation.                                                         *)
(*   text   a tuple of one-character strings; "An" is <<"A","n">>.         *)
(*   cell   NaN (the empty tuple: read_csv turns an empty field into NaN,  *)
(*          so a loaded frame never holds an empty string), a text, or a   *)
(*          number n written <<n>> (columns of NumericCols).               *)
(*   frame  [columns, rows]; rows is run-length encoded: each element      *)
(*          [n, cells] stands for n consecutive equal rows.                *)
(***************************************************************************)
EXTENDS Integers, Sequences, FiniteSets, TLC

VARIABLES
    pandas3,        \* installed pandas is >= 3.0 (astype(str) keeps NaN)
    file,           \* inscriptions_data.csv on disk
    cache,          \* st.cache_data memo of load_data(): <<>> or <<value>>
    data,           \* `data` of the last script run
    notices,        \* st.error notices of the last script run
    page,           \* branch rendered by the last script run
    crashed,        \* exception that aborted the last script run, or "none"
    search_text, gender_filter, age_filter, filtered_data,
    year_range, most_common,
    gender_counts, age_counts, case_counts, case_df

vars == <<pandas3, file, cache, data, notices, page, crashed,
          search_text, gender_filter, age_filter, filtered_data,
          year_range, most_common,
          gender_counts, age_counts, case_counts, case_df>>

----------------------------------------------------------------------------
(* Bounds *)

MaxRows == 2
MaxRowsLife == 1
MaxRowsStats == 3
BigRun == 20001

----------------------------------------------------------------------------
(* Text *)

NaN == <<>>

Range(s) == { s[i] : i \in 1..Len(s) }

\* Code points of the characters that occur in the model's cells and queries.
Ord ==
    [c \in {"(", ".", "0", "1", "2", "8", "A", "C", "F", "M", "N", "a", "d", "g", "n"} |->
        CASE c = "(" -> 40 [] c = "." -> 46
          [] c = "0" -> 48 [] c = "1" -> 49 [] c = "2" -> 50 [] c = "8" -> 56
          [] c = "A" -> 65 [] c = "C" -> 67 [] c = "F" -> 70 [] c = "M" -> 77
          [] c = "N" -> 78
          [] c = "a" -> 97 [] c = "d" -> 100 [] c = "g" -> 103 [] c = "n" -> 110]

\* str.lower() / re.IGNORECASE folding of one character.
Lower(c) ==
    CASE c = "A" -> "a" [] c = "C" -> "c" [] c = "F" -> "f"
      [] c = "M" -> "m" [] c = "N" -> "n" [] OTHER -> c

\* Python's < on str: lexicographic by code point, a proper prefix is smaller.
RECURSIVE TextLess(_, _)
TextLess(s, t) ==
    IF t = <<>> THEN FALSE
    ELSE IF s = <<>> THEN TRUE
    ELSE IF Ord[Head(s)] # Ord[Head(t)] THEN Ord[Head(s)] < Ord[Head(t)]
    ELSE TextLess(Tail(s), Tail(t))

Digit(d) ==
    CASE d = 0 -> "0" [] d = 1 -> "1" [] d = 2 -> "2" [] d = 3 -> "3" [] d = 4 -> "4"
      [] d = 5 -> "5" [] d = 6 -> "6" [] d = 7 -> "7" [] d = 8 -> "8" [] d = 9 -> "9"

\* str() of a non-negative int64.
RECURSIVE IntStr(_)
IntStr(n) == IF n < 10 THEN <<Digit(n)>> ELSE IntStr(n \div 10) \o <<Digit(n % 10)>>

\* str() of a float64 holding an integral value: "80.0".
FloatStr(n) == IntStr(n) \o <<".", "0">>

NAN_TEXT == <<"n", "a", "n">>

----------------------------------------------------------------------------
(* Frames *)

NumericCols == {"year"}

Sum(f, S) ==
    LET RECURSIVE go(_)
        go(T) == IF T = {} THEN 0
                 ELSE LET x == CHOOSE y \in T : TRUE IN f[x] + go(T \ {x})
    IN go(S)

\* len(df)
NRows(rows) == Sum([i \in 1..Len(rows) |-> rows[i].n], 1..Len(rows))

\* df[col] as a run-length encoded column: <<[n, v], ...>>
Column(rows, col) == [i \in 1..Len(rows) |-> [n |-> rows[i].n, v |-> rows[i].cells[col]]]

\* number of rows of the column holding v
CountOf(column, v) ==
    Sum([i \in 1..Len(column) |-> IF column[i].v = v THEN column[i].n ELSE 0],
        1..Len(column))

\* Series.dropna().unique(): distinct non-missing values in first-occurrence order
RECURSIVE Unique(_)
Unique(column) ==
    IF column = <<>> THEN <<>>
    ELSE LET init == Unique(SubSeq(column, 1, Len(column) - 1))
             v    == column[Len(column)].v
         IN IF v = NaN \/ v \in Range(init) THEN init ELSE Append(init, v)

\* dtype read_csv infers for a column
Dtype(frame, col) ==
    IF col \in NumericCols /\ frame.rows # <<>>
    THEN IF \E i \in 1..Len(frame.rows) : frame.rows[i].cells[col] = NaN
         THEN "float64" ELSE "int64"
    ELSE "object"

EmptyFrame == [columns |-> <<>>, rows |-> <<>>]

----------------------------------------------------------------------------
(* load_data *)

\* Mutant of load_data: a failed load yields an empty frame instead of None.
load_data_empty_on_error(f) ==
    [kind |-> "frame", frame |-> f.frame, notice |-> "none"]

\* pd.read_csv("inscriptions_data.csv") wrapped in try/except: the frame, or
\* None together with the notice st.error showed.
load_data(f) ==
    IF f.kind = "csv" THEN [kind |-> "frame", frame |-> f.frame, notice |-> "none"]
    ELSE IF f.kind = "missing"
         THEN [kind |-> "None", frame |-> EmptyFrame, notice |-> "Data file not found"]
         ELSE [kind |-> "None", frame |-> EmptyFrame, notice |-> "Error loading data"]

\* @st.cache_data on a function without arguments: one memo entry, filled by
\* the first call and returned (its st.error replayed) by every later call.
cached_load_data(memo, f) == IF memo = <<>> THEN load_data(f) ELSE memo[1]

----------------------------------------------------------------------------
(* Search page: free-text filter *)

\* DataFrame.astype(str) of one cell.  pandas < 3 turns NaN into the string
\* "nan"; pandas >= 3 casts to the str dtype and keeps NaN.
AsStr(frame, col, cell, p3) ==
    IF cell = NaN THEN (IF p3 THEN NaN ELSE NAN_TEXT)
    ELSE IF col \in NumericCols
         THEN (IF Dtype(frame, col) = "float64" THEN FloatStr(cell[1]) ELSE IntStr(cell[1]))
         ELSE cell

\* re.compile(pat) fails: an opening parenthesis that is never closed.
RegexError(pat) == "(" \in Range(pat)

\* One pattern character against one subject character under re.IGNORECASE:
\* "." is the wildcard, every other character of the model stands for itself.
AtomMatches(a, c) == a = "." \/ Lower(a) = Lower(c)

\* re.search(pat, s, re.IGNORECASE) for a pattern of single-character atoms.
RegexSearch(pat, s) ==
    \E k \in 1..(Len(s) + 1) :
        /\ k + Len(pat) - 1 <= Len(s)
        /\ \A i \in 1..Len(pat) : AtomMatches(pat[i], s[k + i - 1])

\* Series.str.contains(pat, case=False, na=False) on one element (regex=True
\* is the default).
str_contains(s, pat) == IF s = NaN THEN FALSE ELSE RegexSearch(pat, s)

\* lambda row: row.str.contains(search_text, case=False, na=False).any()
RowMatches(frame, cells, pat, p3) ==
    \E i \in 1..Len(frame.columns) :
        str_contains(AsStr(frame, frame.columns[i], cells[frame.columns[i]], p3), pat)

\* The text filter raises re.error: the lambda runs once per row, so only a
\* frame with rows compiles the pattern.
TextFilterRaises(frame, pat) == pat # <<>> /\ frame.rows # <<>> /\ RegexError(pat)

\* if search_text: mask = ...; filtered_data = filtered_data[mask]
TextFilter(frame, pat, p3) ==
    IF pat = <<>> THEN frame.rows
    ELSE SelectSeq(frame.rows, LAMBDA r : RowMatches(frame, r.cells, pat, p3))

----------------------------------------------------------------------------
(* Search page: field filters *)

ALL == <<"A", "l", "l">>

HasColumn(frame, col) == col \in Range(frame.columns)

\* ["All"] + sorted(data[col].dropna().unique().tolist()), or just "All"
\* when the column is absent.
Options(frame, col) ==
    IF HasColumn(frame, col)
    THEN <<ALL>> \o SortSeq(Unique(Column(frame.rows, col)), TextLess)
    ELSE <<ALL>>

\* Mutant of FieldFilter: substring match instead of equality.
FieldFilterSubstring(frame, rows, col, value) ==
    IF value # ALL /\ HasColumn(frame, col)
    THEN SelectSeq(rows, LAMBDA r : str_contains(r.cells[col], value))
    ELSE rows

\* if value != "All" and col in data.columns:
\*     filtered_data = filtered_data[filtered_data[col] == value]
FieldFilter(frame, rows, col, value) ==
    IF value # ALL /\ HasColumn(frame, col)
    THEN SelectSeq(rows, LAMBDA r : r.cells[col] = value)
    ELSE rows

\* data.copy() followed by the three filters
ApplyFilters(frame, pat, g, a, p3) ==
    FieldFilter(frame,
                FieldFilter(frame, TextFilter(frame, pat, p3), "gender", g),
                "age_category", a)

----------------------------------------------------------------------------
(* Overview / About metrics *)

NA_TEXT == <<"N", "/", "A">>

Years(frame) == { c[1] : c \in Range(Unique(Column(frame.rows, "year"))) }

Min(S) == CHOOSE x \in S : \A y \in S : x <= y
Max(S) == CHOOSE x \in S : \A y \in S : x >= y

\* int(data['year'].min()) raises ValueError when min() is NaN: no row, or no
\* row with a year.
YearRangeRaises(frame) == HasColumn(frame, "year") /\ Years(frame) = {}

\* f"{int(data['year'].min())} - {int(data['year'].max())}", or `absent`
\* when the frame has no year column.
YearRange(frame, absent) ==
    IF ~HasColumn(frame, "year") THEN [kind |-> absent, lo |-> 0, hi |-> 0]
    ELSE [kind |-> "range", lo |-> Min(Years(frame)), hi |-> Max(Years(frame))]

\* Mutant of Mode: the modes in first-occurrence order, not sorted.
ModeUnsorted(column) ==
    LET u == Unique(column)
        best == { v \in Range(u) : \A w \in Range(u) : CountOf(column, w) <= CountOf(column, v) }
    IN SelectSeq(u, LAMBDA v : v \in best)

\* Series.mode(): the non-missing values of maximal count, sorted ascending.
Mode(column) ==
    LET u == Unique(column)
        best == { v \in Range(u) : \A w \in Range(u) : CountOf(column, w) <= CountOf(column, v) }
    IN SortSeq(SelectSeq(u, LAMBDA v : v \in best), TextLess)

\* data['gender'].mode()[0] if len(data['gender'].mode()) > 0 else "N/A"
MostCommon(frame) ==
    IF ~HasColumn(frame, "gender") THEN NA_TEXT
    ELSE LET m == Mode(Column(frame.rows, "gender"))
         IN IF Len(m) > 0 THEN m[1] ELSE NA_TEXT

----------------------------------------------------------------------------
(* Statistics page *)

Injective(s) == \A i, j \in 1..Len(s) : s[i] = s[j] => i = j

\* Mutant of ValueCounts: value_counts(sort=False), first-occurrence order.
ValueCountsUnsorted(column) ==
    LET u == Unique(column)
    IN { [i \in 1..Len(u) |-> [value |-> u[i], count |-> CountOf(column, u[i])]] }

\* Series.value_counts(): one entry per distinct non-missing value, sorted by
\* descending count with the default (unstable) quicksort, so entries of equal
\* count may come out in any order.
ValueCounts(column) ==
    LET u == Unique(column)
    IN { [i \in 1..Len(u) |-> [value |-> p[i], count |-> CountOf(column, p[i])]] :
           p \in { q \in [1..Len(u) -> Range(u)] :
                     /\ Injective(q)
                     /\ \A i \in 1..(Len(u) - 1) :
                            CountOf(column, q[i]) >= CountOf(column, q[i + 1]) } }

ColumnCounts(frame, col) ==
    IF HasColumn(frame, col) THEN ValueCounts(Column(frame.rows, col)) ELSE {<<>>}

\* .sort_index(): ascending by label
SortIndex(counts) == SortSeq(counts, LAMBDA x, y : TextLess(x.value, y.value))

(* float64 arithmetic of line 253.  A positive float64 is [m, e]: m its 53
   significand bits, most significant first, and e the exponent of the last
   bit, so that its value is BitsToInt(m) * 2^e. *)

RECURSIVE BitsToInt(_)
BitsToInt(b) ==
    IF b = <<>> THEN 0 ELSE 2 * BitsToInt(SubSeq(b, 1, Len(b) - 1)) + b[Len(b)]

RECURSIVE IntBits(_)
IntBits(n) == IF n = 0 THEN <<>> ELSE IntBits(n \div 2) \o <<n % 2>>

\* b + 1
RECURSIVE Incr(_)
Incr(b) ==
    IF b = <<>> THEN <<1>>
    ELSE IF b[Len(b)] = 0 THEN SubSeq(b, 1, Len(b) - 1) \o <<1>>
    ELSE Incr(SubSeq(b, 1, Len(b) - 1)) \o <<0>>

\* The float64 nearest to BitsToInt(b) * 2^e, ties to the even significand.
RoundToFloat(b, e) ==
    IF Len(b) <= 53
    THEN [m |-> b \o [i \in 1..(53 - Len(b)) |-> 0], e |-> e - (53 - Len(b))]
    ELSE LET kept   == SubSeq(b, 1, 53)
             sticky == \E i \in 55..Len(b) : b[i] = 1
             up     == b[54] = 1 /\ (sticky \/ kept[53] = 1)
             m      == IF up THEN Incr(kept) ELSE kept
         IN IF Len(m) = 54
            THEN [m |-> SubSeq(m, 1, 53), e |-> e + (Len(b) - 53) + 1]
            ELSE [m |-> m, e |-> e + (Len(b) - 53)]

\* the least p with c * 2^p >= n
RECURSIVE Shift(_, _)
Shift(c, n) == IF c >= n THEN 0 ELSE 1 + Shift(2 * c, n)

\* the next k quotient bits of r / n, followed by one bit telling whether a
\* remainder is left
RECURSIVE QuotientBits(_, _, _)
QuotientBits(r, n, k) ==
    IF k = 0 THEN <<IF r # 0 THEN 1 ELSE 0>>
    ELSE <<r \div n>> \o QuotientBits(2 * (r % n), n, k - 1)

\* count / total in float64 (0 < count <= total)
FloatDiv(count, total) ==
    LET p == Shift(count, total)
    IN RoundToFloat(QuotientBits(count * (2 ^ p), total, 54), -p - 54)

\* BitsToInt(b) * k + carry, as bits
RECURSIVE MulBits(_, _, _)
MulBits(b, k, carry) ==
    IF b = <<>> THEN IntBits(carry)
    ELSE LET t == b[Len(b)] * k + carry
         IN IF t % 2 = 0
            THEN MulBits(SubSeq(b, 1, Len(b) - 1), k, t \div 2) \o <<0>>
            ELSE MulBits(SubSeq(b, 1, Len(b) - 1), k, t \div 2) \o <<1>>

\* x * 100 in float64
FloatMul100(x) == RoundToFloat(MulBits(x.m, 100, 0), x.e)

\* numpy.rint: the nearest integer, ties to even (x < 2^31)
Rint(x) ==
    LET ip == 53 + x.e
    IN IF ip < 0 THEN 0
       ELSE LET int    == BitsToInt(SubSeq(x.m, 1, ip))
                sticky == \E i \in (ip + 2)..53 : x.m[i] = 1
            IN IF x.m[ip + 1] = 1 /\ (sticky \/ int % 2 = 1) THEN int + 1 ELSE int

\* (count / len(data) * 100).round(2), in hundredths of a percent: numpy
\* rounds by multiplying by 100, rint and dividing by 100, all in float64, so
\* a quotient that is exactly half a hundredth goes up or down with the float
\* error (23/160 -> 14.37, 49/160 -> 30.63).
Percentage(count, total) == Rint(FloatMul100(FloatMul100(FloatDiv(count, total))))

\* Mutant of CaseDf: percentages of the rows that have a case value.
CaseDfOfNonMissing(counts, total) ==
    LET present == Sum([i \in 1..Len(counts) |-> counts[i].count], 1..Len(counts))
    IN [i \in 1..Len(counts) |->
           [Case |-> counts[i].value, Count |-> counts[i].count,
            Percentage |-> Percentage(counts[i].count, present)]]

\* pd.DataFrame({'Case': ..., 'Count': ..., 'Percentage': ...})
CaseDf(counts, total) ==
    [i \in 1..Len(counts) |->
        [Case |-> counts[i].value, Count |-> counts[i].count,
         Percentage |-> Percentage(counts[i].count, total)]]

----------------------------------------------------------------------------
(* Pages *)

UNSET == [kind |-> "unset", lo |-> 0, hi |-> 0]

\* Mutant of SearchPage: the filters are applied to data itself.
SearchPageInPlace(frame, pat, g, a, p3) ==
    [data |-> [frame EXCEPT !.rows = ApplyFilters(frame, pat, g, a, p3)],
     filtered_data |-> ApplyFilters(frame, pat, g, a, p3)]

\* Search page, lines 153-168: data.copy() is filtered, data is left alone.
SearchPage(frame, pat, g, a, p3) ==
    [data |-> frame, filtered_data |-> ApplyFilters(frame, pat, g, a, p3)]

\* gender_counts = data['gender'].value_counts()
GenderCounts(vc) == vc

\* age_counts = data['age_category'].value_counts().sort_index()
AgeCounts(vc) == SortIndex(vc)

\* case_counts = data['case'].value_counts()
CaseCounts(vc) == vc

----------------------------------------------------------------------------
(* Inputs *)

Missing == [kind |-> "missing", frame |-> EmptyFrame]
Unparsable == [kind |-> "unparsable", frame |-> EmptyFrame]

\* Frames with the given columns, at most maxRuns runs, run lengths from lens
\* and cells from cellSet (a set of records, one field per column).
FramesOf(cols, cellSet, lens, maxRuns) ==
    { [columns |-> cols, rows |-> r] :
        r \in UNION { [1..k -> [n : lens, cells : cellSet]] : k \in 0..maxRuns } }

Csv(frames) == { [kind |-> "csv", frame |-> fr] : fr \in frames }

LifeFiles ==
    {Missing, Unparsable} \cup
    Csv(FramesOf(<<"gender", "year">>,
                 [gender : {NaN, <<"F">>}, year : {NaN, <<80>>}], {1}, MaxRowsLife))

SearchFiles ==
    Csv(FramesOf(<<"name", "gender">>,
                 [name : {NaN, <<"A", "n">>}, gender : {NaN, <<"F">>, <<"M">>}],
                 {1}, MaxRows)
        \cup
        FramesOf(<<"age_category", "year">>,
                 [age_category : {NaN, <<"A">>}, year : {NaN, <<12>>, <<120>>}],
                 {1}, MaxRows)
        \cup
        FramesOf(<<"gender", "age_category">>,
                 [gender : {<<"F">>, <<"M">>}, age_category : {<<"A">>, <<"A", "d">>}],
                 {1}, MaxRows))

StatsFiles ==
    Csv(FramesOf(<<"gender">>, [gender : {NaN, <<"M">>, <<"F">>}], {1}, MaxRowsStats)
        \cup
        FramesOf(<<"age_category">>, [age_category : {NaN, <<"C">>, <<"A">>}],
                 {1}, MaxRowsStats)
        \cup
        FramesOf(<<"case">>, [case : {NaN, <<"n">>, <<"g">>}], {1, BigRun}, MaxRowsStats)
        \cup
        \* run lengths adding up to 160 rows: 23/160 and 49/160 are exactly
        \* half a hundredth of a percent
        FramesOf(<<"case">>, [case : {NaN, <<"n">>, <<"g">>}], {23, 49, 88}, MaxRowsStats))

\* Texts typed into "Search any text"
Queries ==
    { <<>>, <<"a">>, <<"A", "N">>, <<"n", "a">>, <<"n", "a", "n">>, <<"f">>, <<"d">>,
      <<".">>, <<"1", "2">>, <<".", "0">>, <<"2", ".">>, <<"(">> }

----------------------------------------------------------------------------
(* State machine *)

NoData == [kind |-> "None", frame |-> EmptyFrame, notice |-> "none"]

InitWith(files) ==
    /\ pandas3 \in BOOLEAN
    /\ file \in files
    /\ cache = <<>>
    /\ data = NoData
    /\ notices = {}
    /\ page = "none"
    /\ crashed = "none"
    /\ search_text = <<>>
    /\ gender_filter = ALL
    /\ age_filter = ALL
    /\ filtered_data = <<>>
    /\ year_range = UNSET
    /\ most_common = <<>>
    /\ gender_counts = <<>>
    /\ age_counts = <<>>
    /\ case_counts = <<>>
    /\ case_df = <<>>

Init == InitWith(LifeFiles)

\* The file is created, replaced, repaired or removed between two script runs.
WriteFile ==
    /\ \E f \in LifeFiles : f # file /\ file' = f
    /\ UNCHANGED <<pandas3, cache, data, notices, page, crashed,
                   search_text, gender_filter, age_filter, filtered_data,
                   year_range, most_common,
                   gender_counts, age_counts, case_counts, case_df>>

\* data = load_data(), lines 22-36
Load(d) ==
    /\ d = cached_load_data(cache, file)
    /\ cache' = <<d>>
    /\ UNCHANGED <<pandas3, file>>

NoSearch ==
    /\ search_text' = <<>>
    /\ gender_filter' = ALL
    /\ age_filter' = ALL
    /\ filtered_data' = <<>>

NoMetrics == year_range' = UNSET /\ most_common' = <<>>

NoStatistics ==
    /\ gender_counts' = <<>>
    /\ age_counts' = <<>>
    /\ case_counts' = <<>>
    /\ case_df' = <<>>

\* Lines 55-124
RunOverview ==
    \E d \in {cached_load_data(cache, file)} :
        /\ d.kind = "frame"
        /\ Load(d)
        /\ data' = d
        /\ notices' = {}
        /\ page' = "Overview"
        /\ IF YearRangeRaises(d.frame)
           THEN crashed' = "ValueError" /\ NoMetrics
           ELSE /\ crashed' = "none"
                /\ year_range' = YearRange(d.frame, "N/A")
                /\ most_common' = MostCommon(d.frame)
        /\ NoSearch
        /\ NoStatistics

\* Lines 129-186
RunSearch ==
    \E d \in {cached_load_data(cache, file)} :
        /\ d.kind = "frame"
        /\ Load(d)
        /\ notices' = {}
        /\ page' = "Search"
        /\ \E q \in Queries :
           \E g \in Range(Options(d.frame, "gender")) :
           \E a \in Range(Options(d.frame, "age_category")) :
               /\ search_text' = q
               /\ gender_filter' = g
               /\ age_filter' = a
               /\ IF TextFilterRaises(d.frame, q)
                  THEN crashed' = "re.error" /\ data' = d /\ filtered_data' = <<>>
                  ELSE LET r == SearchPage(d.frame, q, g, a, pandas3)
                       IN /\ crashed' = "none"
                          /\ data' = [d EXCEPT !.frame = r.data]
                          /\ filtered_data' = r.filtered_data
        /\ NoMetrics
        /\ NoStatistics

\* Lines 191-268
RunStatistics ==
    \E d \in {cached_load_data(cache, file)} :
        /\ d.kind = "frame"
        /\ Load(d)
        /\ data' = d
        /\ notices' = {}
        /\ page' = "Statistics"
        /\ crashed' = "none"
        /\ \E gc \in ColumnCounts(d.frame, "gender") :
           \E ac \in ColumnCounts(d.frame, "age_category") :
           \E cc \in ColumnCounts(d.frame, "case") :
               /\ gender_counts' = GenderCounts(gc)
               /\ age_counts' = AgeCounts(ac)
               /\ case_counts' = CaseCounts(cc)
               /\ case_df' = CaseDf(CaseCounts(cc), NRows(d.frame.rows))
        /\ NoMetrics
        /\ NoSearch

\* Lines 273-312
RunAbout ==
    \E d \in {cached_load_data(cache, file)} :
        /\ d.kind = "frame"
        /\ Load(d)
        /\ data' = d
        /\ notices' = {}
        /\ page' = "About"
        /\ IF YearRangeRaises(d.frame)
           THEN crashed' = "ValueError" /\ year_range' = UNSET
           ELSE crashed' = "none" /\ year_range' = YearRange(d.frame, "Ancient Rome")
        /\ most_common' = <<>>
        /\ NoSearch
        /\ NoStatistics

\* Lines 314-324
RunNoData ==
    \E d \in {cached_load_data(cache, file)} :
        /\ d.kind = "None"
        /\ Load(d)
        /\ data' = d
        /\ notices' = {d.notice, "Could not load data"}
        /\ page' = "NoData"
        /\ crashed' = "none"
        /\ NoMetrics
        /\ NoSearch
        /\ NoStatistics

\* One run of the script
Run == RunOverview \/ RunSearch \/ RunStatistics \/ RunAbout \/ RunNoData

Next ==
    \/ WriteFile
    \/ RunOverview
    \/ RunSearch
    \/ RunStatistics
    \/ RunAbout
    \/ RunNoData

Spec == Init /\ [][Next]_vars

\* The Search page over a wider family of frames
InitSearch == InitWith(SearchFiles)
NextSearch == RunSearch
SpecSearch == InitSearch /\ [][NextSearch]_vars

\* The Overview, Statistics and About pages over a wider family of frames
InitStats == InitWith(StatsFiles)
NextStats == RunOverview \/ RunStatistics \/ RunAbout
SpecStats == InitStats /\ [][NextStats]_vars

----------------------------------------------------------------------------
(* Properties *)

Abs(x) == IF x < 0 THEN -x ELSE x

\* s is obtained from t by deleting rows
RECURSIVE IsSubSeq(_, _)
IsSubSeq(s, t) ==
    IF s = <<>> THEN TRUE
    ELSE IF t = <<>> THEN FALSE
    ELSE IF Head(s) = Head(t) THEN IsSubSeq(Tail(s), Tail(t))
    ELSE IsSubSeq(s, Tail(t))

\* q occurs in s as a plain, case-insensitive substring
LiteralContains(s, q) ==
    /\ s # NaN
    /\ \E k \in 1..Len(s) :
           /\ k + Len(q) - 1 <= Len(s)
           /\ \A i \in 1..Len(q) : Lower(q[i]) = Lower(s[k + i - 1])

\* the equality filter on field f with selected value v keeps row r
FieldKeeps(frame, r, f, v) == (HasColumn(frame, f) /\ v # ALL) => r.cells[f] = v

Searched == page = "Search" /\ crashed = "none"

\* C1: with a non-empty query q and no field filter, the Search page raises
\* nothing and keeps exactly the rows in which some column's text contains q
\* as a literal case-insensitive substring.
C1_TextFilterIsLiteralSubstring ==
    (page = "Search" /\ search_text # <<>> /\ gender_filter = ALL /\ age_filter = ALL) =>
        /\ crashed = "none"
        /\ filtered_data =
              SelectSeq(data.frame.rows,
                        LAMBDA r : \E i \in 1..Len(data.frame.columns) :
                            LiteralContains(
                                AsStr(data.frame, data.frame.columns[i],
                                      r.cells[data.frame.columns[i]], pandas3),
                                search_text))

\* C2: every row the free-text filter keeps has a column that is not missing
\* and whose text matches the query; a missing value alone never keeps a row.
C2_MissingNeverMatches ==
    (Searched /\ search_text # <<>>) =>
        \A k \in 1..Len(filtered_data) :
            \E i \in 1..Len(data.frame.columns) :
                LET col == data.frame.columns[i]
                    cell == filtered_data[k].cells[col]
                IN /\ cell # NaN
                   /\ str_contains(AsStr(data.frame, col, cell, pandas3), search_text)

\* C3: the field filters keep exactly the rows of their input (the loaded
\* rows, narrowed by the text filter when a query is given) whose gender
\* (age_category) equals the selected value; a filter on an absent column, or
\* set to "All", keeps every row; and without a text query nothing is raised.
C3_FieldFilterIsEquality ==
    /\ (page = "Search" /\ search_text = <<>>) => crashed = "none"
    /\ Searched =>
          filtered_data =
              SelectSeq(TextFilter(data.frame, search_text, pandas3),
                        LAMBDA r : /\ FieldKeeps(data.frame, r, "gender", gender_filter)
                                   /\ FieldKeeps(data.frame, r, "age_category", age_filter))

C3_Witness ==
    /\ Searched
    /\ search_text = <<>>
    /\ gender_filter = ALL
    /\ age_filter = <<"A">>
    /\ Len(filtered_data) = 1
    /\ \E i \in 1..Len(data.frame.rows) : data.frame.rows[i].cells["age_category"] = <<"A", "d">>

\* C4: every script run binds `data` to what the file holds at that run.
C4_RunReflectsFile == [][Run => data' = load_data(file)]_vars

\* C5: no page raises on a loaded frame without rows.
C5_EmptyDatasetNeverRaises ==
    (data.kind = "frame" /\ data.frame.rows = <<>>) => crashed = "none"

\* C6: a run whose load_data() call fails (file missing or unparsable) raises
\* nothing, shows the load notice, binds data to None and renders only the
\* no-data branch: no metric, filter or aggregate is evaluated.
C6_LoadFailureFallsBack ==
    [][(Run /\ cache = <<>> /\ file.kind # "csv") =>
          /\ data'.kind = "None"
          /\ page' = "NoData"
          /\ crashed' = "none"
          /\ data'.notice \in {"Data file not found", "Error loading data"}
          /\ data'.notice \in notices'
          /\ year_range' = UNSET /\ most_common' = <<>>
          /\ filtered_data' = <<>>
          /\ gender_counts' = <<>> /\ age_counts' = <<>>
          /\ case_counts' = <<>> /\ case_df' = <<>>]_vars

C6_Witness ==
    /\ page = "NoData"
    /\ data.kind = "None"
    /\ file.kind = "unparsable"
    /\ "Error loading data" \in notices
    /\ crashed = "none"

GenderColumn == Column(data.frame.rows, "gender")

MaxCount(column, v) == \A w \in Range(Unique(column)) : CountOf(column, w) <= CountOf(column, v)

OverviewGender == page = "Overview" /\ crashed = "none" /\ HasColumn(data.frame, "gender")

\* C7 as stated: the metric is the most frequent non-missing gender, and among
\* values tied for the maximum the one that occurs first in row order.
C7_MostCommonTieFirstEncountered ==
    (OverviewGender /\ Unique(GenderColumn) # <<>>) =>
        LET u == Unique(GenderColumn)
        IN \E i \in 1..Len(u) :
              /\ most_common = u[i]
              /\ MaxCount(GenderColumn, u[i])
              /\ \A j \in 1..(i - 1) : ~MaxCount(GenderColumn, u[j])

\* C7 amended: the metric is the most frequent non-missing gender, and among
\* values tied for the maximum the smallest in string order; "N/A" when no
\* gender is recorded.
C7_MostCommonTieSmallest ==
    OverviewGender =>
        IF Unique(GenderColumn) = <<>> THEN most_common = NA_TEXT
        ELSE /\ most_common \in Range(Unique(GenderColumn))
             /\ MaxCount(GenderColumn, most_common)
             /\ \A w \in Range(Unique(GenderColumn)) :
                    MaxCount(GenderColumn, w) => ~TextLess(w, most_common)

C7_Witness ==
    /\ OverviewGender
    /\ most_common = <<"F">>
    /\ Len(GenderColumn) >= 2
    /\ GenderColumn[1].v = <<"M">>
    /\ CountOf(GenderColumn, <<"M">>) = CountOf(GenderColumn, <<"F">>)

CaseColumn == Column(data.frame.rows, "case")

CaseShown == page = "Statistics" /\ HasColumn(data.frame, "case")

Total == NRows(data.frame.rows)

NonMissing == Total - CountOf(CaseColumn, NaN)

SumCounts == Sum([i \in 1..Len(case_df) |-> case_df[i].Count], 1..Len(case_df))

SumPercentages == Sum([i \in 1..Len(case_df) |-> case_df[i].Percentage], 1..Len(case_df))

\* counts add up to the non-missing rows and each percentage is the nearest
\* hundredth to count / total rows x 100
CountsAndPercentages ==
    /\ SumCounts = NonMissing
    /\ \A i \in 1..Len(case_df) :
           /\ case_df[i].Count = CountOf(CaseColumn, case_df[i].Case)
           /\ 2 * Abs(Total * case_df[i].Percentage - 10000 * case_df[i].Count) <= Total
    /\ (NonMissing = Total /\ Total > 0) => 2 * Abs(SumPercentages - 10000) <= Len(case_df)

\* C8 as stated: ... and with some case value missing the percentages sum to
\* strictly less than 100, by more than rounding can account for.
C8_MissingSumsBelowHundred ==
    CaseShown =>
        /\ CountsAndPercentages
        /\ NonMissing < Total =>
              /\ SumPercentages < 10000
              /\ 2 * (10000 - SumPercentages) > Len(case_df)

\* C8 amended: the counts sum to the rows with a case value, each percentage
\* is count / total rows x 100 rounded to 2 decimals, and the percentages sum,
\* within rounding error, to 100 x (rows with a case value) / (total rows):
\* to 100 when nothing is missing, and otherwise to less by the share of
\* missing rows, which in a large dataset rounding can hide.
C8_SumIsNonMissingShare ==
    CaseShown =>
        /\ CountsAndPercentages
        /\ 2 * Abs(Total * SumPercentages - 10000 * NonMissing) <= Len(case_df) * Total

C8_Witness ==
    /\ CaseShown
    /\ Total = 160
    /\ NonMissing < Total
    /\ Len(case_df) = 2
    /\ \E i, j \in 1..2 :
           /\ case_df[i].Count = 23 /\ case_df[i].Percentage = 1437
           /\ case_df[j].Count = 49 /\ case_df[j].Percentage = 3063

\* entries are the distinct non-missing values of the column with their counts
CountsOf(counts, column) ==
    /\ Len(counts) = Len(Unique(column))
    /\ Injective([i \in 1..Len(counts) |-> counts[i].value])
    /\ \A i \in 1..Len(counts) :
           /\ counts[i].value \in Range(Unique(column))
           /\ counts[i].count = CountOf(column, counts[i].value)

FirstIndex(column, v) == CHOOSE i \in 1..Len(column) : column[i].v = v /\ \A j \in 1..(i - 1) : column[j].v # v

DescendingFirstOccurrence(counts, column) ==
    /\ CountsOf(counts, column)
    /\ \A i, j \in 1..Len(counts) :
           i < j => \/ counts[i].count > counts[j].count
                    \/ /\ counts[i].count = counts[j].count
                       /\ FirstIndex(column, counts[i].value) < FirstIndex(column, counts[j].value)

Descending(counts, column) ==
    /\ CountsOf(counts, column)
    /\ \A i, j \in 1..Len(counts) : i < j => counts[i].count >= counts[j].count

AscendingLabel(counts, column) ==
    /\ CountsOf(counts, column)
    /\ \A i, j \in 1..Len(counts) : i < j => TextLess(counts[i].value, counts[j].value)

Shown(counts, col, P(_, _)) ==
    (page = "Statistics" /\ HasColumn(data.frame, col)) => P(counts, Column(data.frame.rows, col))

\* C9 as stated, for the age_category aggregate: its values are listed by
\* descending count, equal counts in first-occurrence order.  (The gender and
\* case aggregates are descending; the order of their ties is the sort's.)
C9_AgeDescendingFirstOccurrence ==
    Shown(age_counts, "age_category", DescendingFirstOccurrence)

\* C9 amended: the gender and case aggregates list their values by descending
\* count; the age_category aggregate lists them in ascending order of label.
C9_DescendingExceptAge ==
    /\ Shown(gender_counts, "gender", Descending)
    /\ Shown(age_counts, "age_category", AscendingLabel)
    /\ Shown(case_counts, "case", Descending)

C9_Witness ==
    /\ page = "Statistics"
    /\ Len(age_counts) = 2
    /\ age_counts[1].count < age_counts[2].count
    /\ age_counts[1].value = <<"A">>

\* C10: the filtered view is a sub-sequence of the loaded frame's rows, and
\* the frame bound to `data` is still the loaded one.
C10_ViewIsSubsequence ==
    Searched =>
        /\ IsSubSeq(filtered_data, data.frame.rows)
        /\ data = cache[1]
        /\ data.frame = file.frame

C10_Witness ==
    /\ Searched
    /\ search_text # <<>>
    /\ gender_filter # ALL
    /\ Len(data.frame.rows) = 2
    /\ Len(filtered_data) = 1
    /\ filtered_data[1] = data.frame.rows[2]

====
